---- MODULE Spec2Model ----
(***************************************************************************)
(* Model of noxfile.py: the nox sessions lint, blacken, lint_setup_py,     *)
(* unit, cover, system, snippets, docs and docfx.                          *)
(*                                                                         *)
(* A session function is a straight-line Python procedure.  It is modelled *)
(* as the sequence of its statements, executed one at a time at a program  *)
(* counter.  session.install and session.run raise when the command exits  *)
(* non-zero (the session then ends "failed"), session.skip raises as well  *)
(* (the session then ends "skipped"), and a function that returns ends the *)
(* session "succeeded".  The exit status of an external command is an      *)
(* input, drawn nondeterministically.                                      *)
(***************************************************************************)
EXTENDS Naturals, Sequences, FiniteSets

VARIABLES
    environ,      \* os.environ restricted to the variable the file reads
    files,        \* the paths of the working tree that exist, among Paths
    coverage,     \* number of test runs accumulated in the coverage data file
    session,      \* name of the session being executed, or "none"
    python,       \* interpreter version the session runs under
    posargs,      \* session.posargs of this invocation
    pc,           \* index of the next statement of the session function
    system_test_exists,         \* local of system(), line 119
    system_test_folder_exists,  \* local of system(), line 120
    outcome,      \* "none", "running", "succeeded", "skipped" or "failed"
    trace,        \* the steps executed by this session, in order of execution
    start         \* files and coverage as they were when the session was started

vars == <<environ, files, coverage, session, python, posargs, pc,
          system_test_exists, system_test_folder_exists, outcome, trace, start>>

----------------------------------------------------------------------------
(* Bounds of the model *)

\* the coverage data file is tracked up to this many accumulated runs
MaxCov == 2

\* the command lines given after "--" when nox is invoked
PosargsChoices == {<<>>, <<"-x">>}

\* exit statuses of an external command: zero and one non-zero representative
ExitCodes == {0, 1}

----------------------------------------------------------------------------
(* Module-level constants of noxfile.py *)

DEFAULT_PYTHON_VERSION == "3.8"
SYSTEM_TEST_PYTHON_VERSIONS == <<"2.7", "3.8">>
UNIT_TEST_PYTHON_VERSIONS == <<"2.7", "3.5", "3.6", "3.7", "3.8">>
LOCAL_DEPS == <<>>

CREDENTIALS == "GOOGLE_APPLICATION_CREDENTIALS"

----------------------------------------------------------------------------
(* os.path and os.environ *)

\* os.path.join(a, b) on a POSIX host
PathJoin(a, b) == a \o "/" \o b

system_test_path == PathJoin("tests", "system.py")
system_test_folder_path == PathJoin("tests", "system")
snippets_path == PathJoin("docs", "snippets.py")
snippets_table_path == PathJoin("docs", "snippets_table.py")
build_path == PathJoin("docs", "_build")

\* a trailing "" component leaves a trailing separator
doctrees_path == PathJoin(PathJoin(build_path, "doctrees"), "")
source_path == PathJoin("docs", "")
html_path == PathJoin(PathJoin(build_path, "html"), "")

TestPaths == {system_test_path, system_test_folder_path,
              snippets_path, snippets_table_path}
Paths == TestPaths \cup {build_path}

\* os.path.exists(p)
PathExists(p) == p \in files

\* the values the credential variable takes: a set of (name, value) pairs,
\* empty when the variable is unset
Environs == { {}, {<<CREDENTIALS, "">>}, {<<CREDENTIALS, "key.json">>} }

\* os.environ.get(name, dflt)
EnvironGet(env, name, dflt) ==
    IF \E kv \in env : kv[1] = name
    THEN (CHOOSE kv \in env : kv[1] = name)[2]
    ELSE dflt

\* truth value of a Python str
Truthy(s) == s # ""

\* the guard written as a test for an unset variable only
CredentialsMissing_unset_only(env) == ~\E kv \in env : kv[1] = CREDENTIALS

\* the condition of the credential guards, lines 116 and 148
CredentialsMissing(env) == ~Truthy(EnvironGet(env, CREDENTIALS, ""))

\* the guard of line 122 with the condition never true
TestsNotFound_never(file_exists, folder_exists) == FALSE

\* the condition of the guard of line 122
TestsNotFound(file_exists, folder_exists) == ~file_exists /\ ~folder_exists

----------------------------------------------------------------------------
(* Statements of a session function *)

Install(args, line) ==
    [k |-> "install", args |-> args, cond |-> "always", line |-> line]
Run(args, line) ==
    [k |-> "run", args |-> args, cond |-> "always", line |-> line]
RunIf(cond, args, line) ==
    [k |-> "run", args |-> args, cond |-> cond, line |-> line]
SkipUnlessCredentials(line) ==
    [k |-> "skip_no_credentials", args |-> <<>>, cond |-> "always", line |-> line]
Stat(line) ==
    [k |-> "stat", args |-> <<>>, cond |-> "always", line |-> line]
SkipUnlessFound(line) ==
    [k |-> "skip_not_found", args |-> <<>>, cond |-> "always", line |-> line]
Rmtree(path, line) ==
    [k |-> "rmtree", args |-> <<path>>, cond |-> "always", line |-> line]

\* for local_dep in LOCAL_DEPS: session.install("-e", local_dep)
InstallLocalDeps(line) ==
    [i \in 1..Len(LOCAL_DEPS) |-> Install(<<"-e", LOCAL_DEPS[i]>>, line)]

lint ==
    << Install(<<"flake8", "black">> \o LOCAL_DEPS, 36),
       Run(<<"black", "--check", "google", "tests", "docs">>, 37),
       Run(<<"flake8", "google", "tests">>, 44) >>

blacken ==
    << Install(<<"black">>, 53),
       Run(<<"black", "google", "tests", "docs">>, 54) >>

lint_setup_py ==
    << Install(<<"docutils", "pygments">>, 65),
       Run(<<"python", "setup.py", "check", "--restructuredtext", "--strict">>, 66) >>

\* default() installing the package only after the tests have run
default_install_late(pa) ==
    << Install(<<"mock", "pytest", "pytest-cov">>, 71) >>
    \o InstallLocalDeps(73)
    \o << Run(<<"py.test", "--quiet", "--cov=google.cloud", "--cov=tests.unit",
                "--cov-append", "--cov-config=.coveragerc", "--cov-report=",
                "--cov-fail-under=0", PathJoin("tests", "unit")>> \o pa, 77),
          Install(<<"-e", ".">>, 74) >>

default(pa) ==
    << Install(<<"mock", "pytest", "pytest-cov">>, 71) >>
    \o InstallLocalDeps(73)
    \o << Install(<<"-e", ".">>, 74),
          Run(<<"py.test", "--quiet", "--cov=google.cloud", "--cov=tests.unit",
                "--cov-append", "--cov-config=.coveragerc", "--cov-report=",
                "--cov-fail-under=0", PathJoin("tests", "unit")>> \o pa, 77) >>

unit(pa) == default(pa)

\* cover() erasing the data before reporting on it
cover_erase_first ==
    << Install(<<"coverage", "pytest-cov">>, 104),
       Run(<<"coverage", "erase">>, 107),
       Run(<<"coverage", "report", "--show-missing", "--fail-under=99">>, 105) >>

cover ==
    << Install(<<"coverage", "pytest-cov">>, 104),
       Run(<<"coverage", "report", "--show-missing", "--fail-under=99">>, 105),
       Run(<<"coverage", "erase">>, 107) >>

\* system() running both targets under the test for the file
system_one_flag(pa) ==
    << SkipUnlessCredentials(116),
       Stat(119),
       SkipUnlessFound(122),
       Install(<<"--pre", "grpcio">>, 126),
       Install(<<"mock", "pytest">>, 130) >>
    \o InstallLocalDeps(132)
    \o << Install(<<"-e", "test_utils/">>, 133),
          Install(<<"-e", ".">>, 134),
          RunIf("system_test_exists",
                <<"py.test", "--quiet", system_test_path>> \o pa, 138),
          RunIf("system_test_exists",
                <<"py.test", "--quiet", system_test_folder_path>> \o pa, 140) >>

system(pa) ==
    << SkipUnlessCredentials(116),
       Stat(119),
       SkipUnlessFound(122),
       Install(<<"--pre", "grpcio">>, 126),
       Install(<<"mock", "pytest">>, 130) >>
    \o InstallLocalDeps(132)
    \o << Install(<<"-e", "test_utils/">>, 133),
          Install(<<"-e", ".">>, 134),
          RunIf("system_test_exists",
                <<"py.test", "--quiet", system_test_path>> \o pa, 138),
          RunIf("system_test_folder_exists",
                <<"py.test", "--quiet", system_test_folder_path>> \o pa, 140) >>

\* snippets() installing the test dependencies before the credential guard
snippets_guard_late(pa) ==
    << Install(<<"mock", "pytest">>, 152),
       SkipUnlessCredentials(148) >>
    \o InstallLocalDeps(154)
    \o << Install(<<"-e", "test_utils/">>, 155),
          Install(<<"-e", ".">>, 156),
          Run(<<"py.test", "--quiet", snippets_path>> \o pa, 157),
          Run(<<"py.test", "--quiet", snippets_table_path>> \o pa, 163) >>

snippets(pa) ==
    << SkipUnlessCredentials(148),
       Install(<<"mock", "pytest">>, 152) >>
    \o InstallLocalDeps(154)
    \o << Install(<<"-e", "test_utils/">>, 155),
          Install(<<"-e", ".">>, 156),
          Run(<<"py.test", "--quiet", snippets_path>> \o pa, 157),
          Run(<<"py.test", "--quiet", snippets_table_path>> \o pa, 163) >>

\* docs() removing the old build before installing
docs_rmtree_first ==
    << Rmtree(build_path, 178),
       Install(<<"-e", ".">>, 175),
       Install(<<"sphinx", "alabaster", "recommonmark">>, 176),
       Run(<<"sphinx-build", "-W", "-T", "-N", "-b", "html", "-d",
             doctrees_path, source_path, html_path>>, 179) >>

docs ==
    << Install(<<"-e", ".">>, 175),
       Install(<<"sphinx", "alabaster", "recommonmark">>, 176),
       Rmtree(build_path, 178),
       Run(<<"sphinx-build", "-W", "-T", "-N", "-b", "html", "-d",
             doctrees_path, source_path, html_path>>, 179) >>

docfx ==
    << Install(<<"-e", ".">>, 196),
       Install(<<"sphinx", "alabaster", "recommonmark", "sphinx-docfx-yaml">>, 197),
       Rmtree(build_path, 199),
       Run(<<"sphinx-build", "-T", "-N", "-D",
             "extensions=sphinx.ext.autodoc,sphinx.ext.autosummary,docfx_yaml.extension,sphinx.ext.intersphinx,sphinx.ext.coverage,sphinx.ext.napoleon,sphinx.ext.todo,sphinx.ext.viewcode,recommonmark",
             "-b", "html", "-d",
             doctrees_path, source_path, html_path>>, 200) >>

SessionNames == {"lint", "blacken", "lint_setup_py", "unit", "cover",
                 "system", "snippets", "docs", "docfx"}

\* the python= argument of each @nox.session decorator
Pythons(s) ==
    CASE s = "blacken" -> <<"3.6">>
      [] s = "unit" -> UNIT_TEST_PYTHON_VERSIONS
      [] s \in {"system", "snippets"} -> SYSTEM_TEST_PYTHON_VERSIONS
      [] OTHER -> <<DEFAULT_PYTHON_VERSION>>

\* the statements of session s invoked with positional arguments pa
Body(s, pa) ==
    CASE s = "lint" -> lint
      [] s = "blacken" -> blacken
      [] s = "lint_setup_py" -> lint_setup_py
      [] s = "unit" -> unit(pa)
      [] s = "cover" -> cover
      [] s = "system" -> system(pa)
      [] s = "snippets" -> snippets(pa)
      [] s = "docs" -> docs
      [] s = "docfx" -> docfx

----------------------------------------------------------------------------
(* The external tools, as far as the sessions depend on their effects *)

Min(a, b) == IF a < b THEN a ELSE b

Elems(args) == {args[i] : i \in DOMAIN args}

\* py.test given a file or directory that does not exist exits non-zero; any
\* other command may exit with either status
PossibleExits(args) ==
    IF args[1] = "py.test" /\ \E p \in Elems(args) \cap TestPaths : ~PathExists(p)
    THEN ExitCodes \ {0}
    ELSE ExitCodes

\* the coverage data file after a command: "coverage erase" empties it, a
\* py.test run with --cov-append adds one run to it (a failing run may or may
\* not have written its data); MaxCov stands for "MaxCov runs or more"
CoverageAfter(args, exit) ==
    IF args[1] = "coverage" /\ args[2] = "erase"
    THEN IF exit = 0 THEN {0} ELSE {coverage}
    ELSE IF args[1] = "py.test" /\ "--cov-append" \in Elems(args)
         THEN IF exit = 0
              THEN {Min(coverage + 1, MaxCov)}
              ELSE {coverage, Min(coverage + 1, MaxCov)}
         ELSE {coverage}

\* the working tree after a command: sphinx-build writes below docs/_build
\* (a failing build may or may not have created the directory)
FilesAfter(args, exit) ==
    IF args[1] = "sphinx-build"
    THEN IF exit = 0
         THEN {files \cup {build_path}}
         ELSE {files, files \cup {build_path}}
    ELSE {files}

----------------------------------------------------------------------------
(* Execution of a session *)

Idle == session = "none"
Running == outcome = "running"
Finished == outcome \in {"succeeded", "skipped", "failed"}

Code == Body(session, posargs)
Cur == Code[pc]
At(k) == Running /\ pc <= Len(Code) /\ Cur.k = k

\* a record of one executed statement: its kind, its arguments, its exit status
\* and the source line of the statement
Step(op, args, exit) ==
    [op |-> op, args |-> args, exit |-> exit, line |-> Cur.line]

\* the value of the local variable a conditional run tests
CondHolds(cond) ==
    CASE cond = "system_test_exists" -> system_test_exists
      [] cond = "system_test_folder_exists" -> system_test_folder_exists
      [] OTHER -> TRUE

TypeOK ==
    /\ environ \in Environs
    /\ files \subseteq Paths
    /\ start.files \subseteq Paths
    /\ start.coverage \in 0..MaxCov
    /\ coverage \in 0..MaxCov
    /\ session \in SessionNames \cup {"none"}
    /\ posargs \in PosargsChoices
    /\ pc \in 1..12
    /\ system_test_exists \in BOOLEAN
    /\ system_test_folder_exists \in BOOLEAN
    /\ outcome \in {"none", "running", "succeeded", "skipped", "failed"}

Init ==
    /\ environ \in Environs
    /\ files \in SUBSET TestPaths
    /\ coverage = 0
    /\ session = "none"
    /\ python = DEFAULT_PYTHON_VERSION
    /\ posargs = <<>>
    /\ pc = 1
    /\ system_test_exists = FALSE
    /\ system_test_folder_exists = FALSE
    /\ outcome = "none"
    /\ trace = <<>>
    /\ start = [files |-> files, coverage |-> coverage]

\* nox starts session s under interpreter py with positional arguments pa
StartSession(s, py, pa) ==
    /\ Idle
    /\ session' = s
    /\ python' = py
    /\ posargs' = pa
    /\ pc' = 1
    /\ system_test_exists' = FALSE
    /\ system_test_folder_exists' = FALSE
    /\ outcome' = "running"
    /\ trace' = <<>>
    /\ start' = [files |-> files, coverage |-> coverage]
    /\ UNCHANGED <<environ, files, coverage>>

\* session.install that tries the same installation again after a failure
SessionInstall_retry ==
    /\ At("install")
    /\ \E exit \in ExitCodes :
         /\ trace' = Append(trace, Step("install", Cur.args, exit))
         /\ IF exit = 0 \/ Len(trace) >= Len(Code)
            THEN pc' = pc + 1 /\ outcome' = outcome
            ELSE pc' = pc /\ outcome' = outcome
    /\ UNCHANGED <<environ, files, coverage, session, python, posargs,
                   system_test_exists, system_test_folder_exists, start>>

\* session.install(*args): raises when pip exits non-zero
SessionInstall ==
    /\ At("install")
    /\ \E exit \in ExitCodes :
         /\ trace' = Append(trace, Step("install", Cur.args, exit))
         /\ IF exit = 0
            THEN pc' = pc + 1 /\ outcome' = outcome
            ELSE pc' = pc /\ outcome' = "failed"
    /\ UNCHANGED <<environ, files, coverage, session, python, posargs,
                   system_test_exists, system_test_folder_exists, start>>

\* session.run that accepts every exit status
SessionRun_any_status ==
    /\ At("run")
    /\ IF CondHolds(Cur.cond)
       THEN \E exit \in PossibleExits(Cur.args) :
              /\ trace' = Append(trace, Step("run", Cur.args, exit))
              /\ coverage' \in CoverageAfter(Cur.args, exit)
              /\ files' \in FilesAfter(Cur.args, exit)
              /\ pc' = pc + 1 /\ outcome' = outcome
       ELSE /\ pc' = pc + 1
            /\ UNCHANGED <<trace, coverage, files, outcome>>
    /\ UNCHANGED <<environ, session, python, posargs,
                   system_test_exists, system_test_folder_exists, start>>

\* session.run(*args), possibly under an if: raises when the command exits
\* non-zero
SessionRun ==
    /\ At("run")
    /\ IF CondHolds(Cur.cond)
       THEN \E exit \in PossibleExits(Cur.args) :
              /\ trace' = Append(trace, Step("run", Cur.args, exit))
              /\ coverage' \in CoverageAfter(Cur.args, exit)
              /\ files' \in FilesAfter(Cur.args, exit)
              /\ IF exit = 0
                 THEN pc' = pc + 1 /\ outcome' = outcome
                 ELSE pc' = pc /\ outcome' = "failed"
       ELSE /\ pc' = pc + 1
            /\ UNCHANGED <<trace, coverage, files, outcome>>
    /\ UNCHANGED <<environ, session, python, posargs,
                   system_test_exists, system_test_folder_exists, start>>

\* if not os.environ.get("GOOGLE_APPLICATION_CREDENTIALS", ""): session.skip(...)
SessionSkipUnlessCredentials ==
    /\ At("skip_no_credentials")
    /\ IF CredentialsMissing(environ)
       THEN pc' = pc /\ outcome' = "skipped"
       ELSE pc' = pc + 1 /\ outcome' = outcome
    /\ UNCHANGED <<environ, files, coverage, session, python, posargs,
                   system_test_exists, system_test_folder_exists, trace, start>>

\* system_test_exists = os.path.exists(system_test_path) and the same for the
\* folder
SessionStat ==
    /\ At("stat")
    /\ system_test_exists' = PathExists(system_test_path)
    /\ system_test_folder_exists' = PathExists(system_test_folder_path)
    /\ pc' = pc + 1
    /\ UNCHANGED <<environ, files, coverage, session, python, posargs,
                   outcome, trace, start>>

\* the guard of line 122 reporting an error where the code skips
SessionSkipUnlessFound_error ==
    /\ At("skip_not_found")
    /\ IF TestsNotFound(system_test_exists, system_test_folder_exists)
       THEN pc' = pc /\ outcome' = "failed"
       ELSE pc' = pc + 1 /\ outcome' = outcome
    /\ UNCHANGED <<environ, files, coverage, session, python, posargs,
                   system_test_exists, system_test_folder_exists, trace, start>>

\* if not system_test_exists and not system_test_folder_exists: session.skip(...)
SessionSkipUnlessFound ==
    /\ At("skip_not_found")
    /\ IF TestsNotFound(system_test_exists, system_test_folder_exists)
       THEN pc' = pc /\ outcome' = "skipped"
       ELSE pc' = pc + 1 /\ outcome' = outcome
    /\ UNCHANGED <<environ, files, coverage, session, python, posargs,
                   system_test_exists, system_test_folder_exists, trace, start>>

\* shutil.rmtree(path, ignore_errors=True): either the tree is removed
\* (exit 0), or the removal hits an error, which is ignored, and the tree is
\* still there (exit 1); a missing tree is such an error.  It never raises.
SessionRmtree ==
    /\ At("rmtree")
    /\ \E removed \in BOOLEAN :
         /\ removed => PathExists(Cur.args[1])
         /\ files' = IF removed THEN files \ {Cur.args[1]} ELSE files
         /\ trace' = Append(trace, Step("rmtree", Cur.args, IF removed THEN 0 ELSE 1))
    /\ pc' = pc + 1
    /\ UNCHANGED <<environ, coverage, session, python, posargs,
                   system_test_exists, system_test_folder_exists, outcome, start>>

\* the session function returns
SessionReturn ==
    /\ Running
    /\ pc > Len(Code)
    /\ outcome' = "succeeded"
    /\ UNCHANGED <<environ, files, coverage, session, python, posargs, pc,
                   system_test_exists, system_test_folder_exists, trace, start>>

\* nox reports the result and exits
NoxExit ==
    /\ Finished
    /\ session' = "none"
    /\ outcome' = "none"
    /\ python' = DEFAULT_PYTHON_VERSION
    /\ posargs' = <<>>
    /\ pc' = 1
    /\ system_test_exists' = FALSE
    /\ system_test_folder_exists' = FALSE
    /\ trace' = <<>>
    /\ start' = [files |-> files, coverage |-> coverage]
    /\ UNCHANGED <<environ, files, coverage>>

\* between invocations the user sets, empties or unsets the credential variable
Export(env) ==
    /\ Idle
    /\ env # environ
    /\ environ' = env
    /\ UNCHANGED <<files, coverage, session, python, posargs, pc,
                   system_test_exists, system_test_folder_exists, outcome, trace, start>>

\* between invocations a test or snippet path is created
Touch(p) ==
    /\ Idle
    /\ p \notin files
    /\ files' = files \cup {p}
    /\ start' = [files |-> files', coverage |-> coverage]
    /\ UNCHANGED <<environ, coverage, session, python, posargs, pc,
                   system_test_exists, system_test_folder_exists, outcome, trace>>

\* between invocations a test or snippet path is deleted
Remove(p) ==
    /\ Idle
    /\ p \in files
    /\ files' = files \ {p}
    /\ start' = [files |-> files', coverage |-> coverage]
    /\ UNCHANGED <<environ, coverage, session, python, posargs, pc,
                   system_test_exists, system_test_folder_exists, outcome, trace>>

SessionStep ==
    \/ SessionInstall
    \/ SessionRun
    \/ SessionSkipUnlessCredentials
    \/ SessionStat
    \/ SessionSkipUnlessFound
    \/ SessionRmtree
    \/ SessionReturn

Next ==
    \/ \E s \in SessionNames :
         \E i \in DOMAIN Pythons(s) :
           \E pa \in PosargsChoices : StartSession(s, Pythons(s)[i], pa)
    \/ SessionStep
    \/ NoxExit
    \/ \E env \in Environs : Export(env)
    \/ \E p \in TestPaths : Touch(p)
    \/ \E p \in TestPaths : Remove(p)

Spec == Init /\ [][Next]_vars

\* every external command terminates and the interpreter keeps executing the
\* session function
FairSpec == Spec /\ WF_vars(SessionStep)

----------------------------------------------------------------------------
(* Vocabulary of the properties *)

Commands == {"install", "run"}

\* the credential variable is unset or set to the empty string
CredentialAbsent == environ \in { {}, {<<CREDENTIALS, "">>} }

\* positions of the trace holding a step of kind op
StepsOf(op) == {i \in DOMAIN trace : trace[i].op = op}

\* positions of the statements of kind k in the running session function
StmtsOf(k) == {i \in DOMAIN Code : Code[i].k = k}

\* positions of the trace where py.test was run on path p
RunsOn(p) == {i \in StepsOf("run") : trace[i].args[1] = "py.test" /\ p \in Elems(trace[i].args)}

\* positions of the trace where the command starting with the words w was run
RunsOf(w) ==
    {i \in StepsOf("run") :
        Len(trace[i].args) >= Len(w) /\ SubSeq(trace[i].args, 1, Len(w)) = w}

----------------------------------------------------------------------------
(* C1 *)

C1_Safe ==
    (session \in {"system", "snippets"} /\ CredentialAbsent)
        => /\ outcome \in {"running", "skipped"}
           /\ trace = <<>>

\* C1: a system or snippets session started while GOOGLE_APPLICATION_CREDENTIALS
\* is unset or empty executes no step, never ends failed or succeeded, and ends
\* skipped.
C1_SkippedWithoutCredentials ==
    /\ []C1_Safe
    /\ (session \in {"system", "snippets"} /\ CredentialAbsent /\ Running)
          ~> (outcome = "skipped")

C1_Witness ==
    /\ session = "snippets"
    /\ environ = {<<CREDENTIALS, "">>}
    /\ outcome = "skipped"
    /\ {snippets_path, snippets_table_path} \subseteq files

----------------------------------------------------------------------------
(* C2 *)

NoSystemTests ==
    system_test_path \notin start.files /\ system_test_folder_path \notin start.files

C2_Safe ==
    (session = "system" /\ NoSystemTests)
        => /\ outcome \in {"running", "skipped"}
           /\ trace = <<>>

\* C2: a system session started while neither tests/system.py nor tests/system
\* exists ends skipped, never failed or succeeded, whatever the credential
\* variable holds.
C2_SkippedWithoutSystemTests ==
    /\ []C2_Safe
    /\ (session = "system" /\ NoSystemTests /\ Running) ~> (outcome = "skipped")

C2_Witness ==
    /\ session = "system"
    /\ NoSystemTests
    /\ ~CredentialAbsent
    /\ outcome = "skipped"
    /\ pc = 3

----------------------------------------------------------------------------
(* C3 *)

\* C3: in every session no install step follows a run step, and once a run
\* step has been executed every install statement of the session function has
\* been executed.
C3_InstallBeforeRun ==
    /\ \A i \in StepsOf("run") : \A j \in StepsOf("install") : j < i
    /\ StepsOf("run") # {}
         => Cardinality(StepsOf("install")) = Cardinality(StmtsOf("install"))

C3_Witness ==
    /\ session = "unit"
    /\ Cardinality(StepsOf("install")) = 2
    /\ Cardinality(StepsOf("run")) = 1

----------------------------------------------------------------------------
(* C4 *)

\* C4: a command that exits non-zero is the last step its session executes and
\* the session ends failed; a session ends failed only that way.
C4_FailureStopsSession ==
    /\ \A i \in DOMAIN trace :
         (trace[i].op \in Commands /\ trace[i].exit # 0)
            => (i = Len(trace) /\ outcome = "failed")
    /\ outcome = "failed"
         => /\ trace # <<>>
            /\ trace[Len(trace)].op \in Commands
            /\ trace[Len(trace)].exit # 0

C4_Witness ==
    /\ session = "cover"
    /\ outcome = "failed"
    /\ Len(trace) = 2
    /\ trace[2].args = <<"coverage", "report", "--show-missing", "--fail-under=99">>
    /\ trace[2].exit # 0
    /\ RunsOf(<<"coverage", "erase">>) = {}

----------------------------------------------------------------------------
(* C5 *)

\* C5 as stated: a system or snippets session that executes a step has its
\* test or snippet files: tests/system.py or tests/system for system,
\* docs/snippets.py and docs/snippets_table.py for snippets.
C5_Original ==
    /\ (session = "system" /\ trace # <<>>) => ~NoSystemTests
    /\ (session = "snippets" /\ trace # <<>>)
          => {snippets_path, snippets_table_path} \subseteq start.files

\* C5 amended: the system session executes a step only if tests/system.py or
\* tests/system exists; the snippets session has no such guard: with the
\* credential variable non-empty it is never skipped and executes its first
\* install step whether or not its snippet files exist, and it runs py.test
\* on docs/snippets.py as soon as its installs have succeeded.
C5_OnlySystemChecksItsFiles ==
    /\ (session = "system" /\ trace # <<>>) => ~NoSystemTests
    /\ (session = "snippets" /\ ~CredentialAbsent)
          => /\ outcome # "skipped"
             /\ Finished => trace # <<>>
             /\ (Finished /\ \A i \in StepsOf("install") : trace[i].exit = 0)
                   => RunsOn(snippets_path) # {}

C5_Witness ==
    /\ session = "snippets"
    /\ snippets_path \notin start.files
    /\ snippets_table_path \notin start.files
    /\ Cardinality(StepsOf("install")) = 3
    /\ RunsOn(snippets_path) # {}

----------------------------------------------------------------------------
(* C6 *)

C6_Safe ==
    /\ outcome \in {"none", "running", "succeeded", "skipped", "failed"}
    /\ (session # "none") = (outcome # "none")
    /\ \A i, j \in DOMAIN trace :
         i < j => /\ trace[i].line < trace[j].line
                  /\ ~(trace[i].op = trace[j].op /\ trace[i].args = trace[j].args)
    /\ \A i \in DOMAIN trace :
         \E n \in DOMAIN Code :
            /\ Code[n].line = trace[i].line
            /\ Code[n].args = trace[i].args
            /\ Code[n].k = trace[i].op

\* C6: every session execution ends, in one of succeeded, skipped and failed,
\* and keeps that outcome; its steps are statements of its function, executed
\* in source order, none of them (an install or a run with given arguments)
\* twice.
C6_TerminatesInOrderWithoutRetry ==
    /\ []C6_Safe
    /\ [][Finished => (outcome' = outcome \/ outcome' = "none")]_vars
    /\ Running ~> Finished

C6_Witness ==
    /\ session = "system"
    /\ outcome = "succeeded"
    /\ Len(trace) = 6
    /\ posargs = <<"-x">>

----------------------------------------------------------------------------
(* C7 *)

ReportCmd == <<"coverage", "report">>
EraseCmd == <<"coverage", "erase">>

\* C7 as stated: a cover session that has run the report step has, when it
\* ends, run the erase step, and the coverage data is then empty.
C7_Original ==
    (session = "cover" /\ Finished /\ RunsOf(ReportCmd) # {})
        => (RunsOf(EraseCmd) # {} /\ coverage = 0)

\* C7 amended: in cover the erase step occurs only after a report step that
\* exited zero; a cover session whose report step exited zero has run the
\* erase step when it ends; and the coverage data is empty after every cover
\* session that succeeded.  Until the erase step has exited zero the data is
\* as it was when the session started.
C7_EraseAfterSuccessfulReport ==
    /\ session = "cover"
         => \A e \in RunsOf(EraseCmd) :
               \E r \in RunsOf(ReportCmd) : r < e /\ trace[r].exit = 0
    /\ (session = "cover" /\ Finished
          /\ \E r \in RunsOf(ReportCmd) : trace[r].exit = 0)
         => RunsOf(EraseCmd) # {}
    /\ (session = "cover" /\ outcome = "succeeded") => coverage = 0
    /\ (session = "cover" /\ \A e \in RunsOf(EraseCmd) : trace[e].exit # 0)
         => coverage = start.coverage

C7_Witness ==
    /\ session = "cover"
    /\ outcome = "succeeded"
    /\ start.coverage = MaxCov
    /\ coverage = 0

----------------------------------------------------------------------------
(* C8 *)

\* C8: a system or snippets session that ends skipped has executed no step and
\* left the working tree and the coverage data as they were; a system session
\* that has executed an install has a non-empty credential variable and one of
\* tests/system.py and tests/system, and a snippets session that has executed
\* an install has a non-empty credential variable.
C8_SkipHasNoEffect ==
    /\ (session \in {"system", "snippets"} /\ outcome = "skipped")
         => (trace = <<>> /\ files = start.files /\ coverage = start.coverage)
    /\ (session = "system" /\ StepsOf("install") # {})
         => (~CredentialAbsent /\ ~NoSystemTests)
    /\ (session = "snippets" /\ StepsOf("install") # {}) => ~CredentialAbsent

C8_Witness ==
    /\ session = "system"
    /\ outcome = "skipped"
    /\ ~CredentialAbsent
    /\ build_path \in files
    /\ coverage > 0

----------------------------------------------------------------------------
(* C9 *)

\* C9: py.test is never run on a system test target that does not exist; a
\* system session that succeeded has run py.test on tests/system.py exactly
\* when that file existed and on tests/system exactly when that directory
\* existed, on at least one of them, each at most once, and on the file before
\* the directory.
C9_SystemRunsWhatExists ==
    session = "system" =>
        /\ RunsOn(system_test_path) # {} => system_test_path \in start.files
        /\ RunsOn(system_test_folder_path) # {} => system_test_folder_path \in start.files
        /\ outcome = "succeeded" =>
             /\ (RunsOn(system_test_path) # {}) = (system_test_path \in start.files)
             /\ (RunsOn(system_test_folder_path) # {})
                   = (system_test_folder_path \in start.files)
             /\ RunsOn(system_test_path) \cup RunsOn(system_test_folder_path) # {}
             /\ Cardinality(RunsOn(system_test_path)) <= 1
             /\ Cardinality(RunsOn(system_test_folder_path)) <= 1
             /\ \A i \in RunsOn(system_test_path) :
                  \A j \in RunsOn(system_test_folder_path) : i < j

C9_Witness ==
    /\ session = "system"
    /\ outcome = "succeeded"
    /\ system_test_path \notin start.files
    /\ system_test_folder_path \in start.files
    /\ RunsOn(system_test_folder_path) # {}

----------------------------------------------------------------------------
(* C10 *)

DocSessions == {"docs", "docfx"}

\* the session is about to invoke sphinx-build
AtSphinxBuild == At("run") /\ Cur.args[1] = "sphinx-build"

C10_Order ==
    session \in DocSessions =>
        /\ \A r \in StepsOf("rmtree") :
              /\ trace[r].args = <<build_path>>
              /\ r = Cardinality(StmtsOf("install")) + 1
              /\ \A i \in 1..(r - 1) : trace[i].op = "install" /\ trace[i].exit = 0
        /\ \A b \in RunsOf(<<"sphinx-build">>) : b - 1 \in StepsOf("rmtree")
        /\ AtSphinxBuild => Len(trace) \in StepsOf("rmtree")
        /\ outcome = "failed" => trace[Len(trace)].op # "rmtree"
        /\ StepsOf("rmtree") = {} => files = start.files

\* C10 as stated: the amended claim, and sphinx-build never starts while
\* docs/_build exists.
C10_Original ==
    /\ C10_Order
    /\ (session \in DocSessions /\ AtSphinxBuild) => build_path \notin files

\* C10 amended: in docs and docfx the removal of docs/_build is attempted
\* after all install steps have succeeded and right before sphinx-build; it
\* never makes the session fail; a session that never reached the removal (an
\* install failed) leaves the working tree untouched; and when the removal
\* succeeded, or there was no docs/_build when the session started,
\* sphinx-build starts without docs/_build.  When the removal hits an error
\* the error is ignored and sphinx-build starts with the old docs/_build.
C10_BuildDirRemovedUnlessError ==
    /\ C10_Order
    /\ (session \in DocSessions /\ AtSphinxBuild
          /\ (trace[Len(trace)].exit = 0 \/ build_path \notin start.files))
         => build_path \notin files

C10_Witness ==
    /\ session = "docfx"
    /\ AtSphinxBuild
    /\ build_path \in start.files
    /\ trace[Len(trace)].op = "rmtree"
    /\ trace[Len(trace)].exit = 0
    /\ build_path \notin files

====
